---------------------------- MODULE Spec2Model ----------------------------
(***************************************************************************)
(* Model of Rekordbox2Traktor.convert_xml_to_nml (src/rekord_to_nml.py).   *)
(*                                                                         *)
(* The parsed Rekordbox document is the input (variable src); the NML tree *)
(* under construction is the output (root, collection, playlists ...).     *)
(* XML elements are records, child lists are sequences in document order.  *)
(* An attribute that is missing and one that is empty are both "" : the    *)
(* code only ever tests attribute values for truthiness.                   *)
(* Numbers: Python floats are modelled by integers; f"{x:.6f}" strings are *)
(* kept as the number they print.                                          *)
(***************************************************************************)
EXTENDS Integers, Sequences, FiniteSets, TLC

VARIABLES
    src,            \* the parsed source document (ET.parse(xml_file).getroot())
    pc,             \* position inside convert_xml_to_nml
    entries,        \* root.findall(".//TRACK")
    root,           \* tags of the children of the NML root, in order
    collection_ENTRIES, \* ENTRIES attribute of COLLECTION (-1: no COLLECTION yet)
    collection,     \* ENTRY children of COLLECTION
    sets_ENTRIES,   \* ENTRIES attribute of SETS (-1: no SETS yet)
    playlists,      \* the $ROOT node of every PLAYLISTS element, in order
    tracks,         \* self.tracks
    track_id_map,   \* self.track_id_map
    track_index,    \* self.track_index
    cue_index       \* self.cue_index

vars == <<src, pc, entries, root, collection_ENTRIES, collection, sets_ENTRIES,
          playlists, tracks, track_id_map, track_index, cue_index>>

-----------------------------------------------------------------------------
(* Bounds of the input documents *)
MaxTempo == 2        \* TEMPO children of a track
MaxMarks == 2        \* POSITION_MARK children of a track
MaxRefs == 2         \* TRACK references of a playlist
MaxChildren == 2     \* child NODEs of the playlist ROOT

-----------------------------------------------------------------------------
(* Generic helpers *)

SeqsUpTo(S, n) == UNION {[1..k -> S] : k \in 0..n}

RECURSIVE Flatten(_)
Flatten(ss) == IF ss = <<>> THEN <<>> ELSE Head(ss) \o Flatten(Tail(ss))

RECURSIVE SelectIdx(_, _, _)
\* the indices i >= from of sequence s with s[i] in the set keep, ascending
SelectIdx(s, keep, from) ==
    IF from > Len(s) THEN <<>>
    ELSE (IF s[from] \in keep THEN <<from>> ELSE <<>>) \o SelectIdx(s, keep, from + 1)

-----------------------------------------------------------------------------
(* Python built-ins *)

\* the numeric strings of the model and the number float() reads from them
NumVal == [s \in {"0", "1", "2", "3", "5", "120.0", "128", "130", "256", "320"} |->
            CASE s = "0" -> 0 [] s = "1" -> 1 [] s = "2" -> 2 [] s = "3" -> 3
              [] s = "5" -> 5 [] s = "120.0" -> 120 [] s = "128" -> 128
              [] s = "130" -> 130 [] s = "256" -> 256 [] s = "320" -> 320]

\* float(s) raises ValueError
float_raises(s) == s \notin DOMAIN NumVal

\* float(s) where it does not raise
float(s) == NumVal[s]

-----------------------------------------------------------------------------
(* utils.py *)

\* get_attribute(element, name): the attribute value, falsy when absent
get_attribute(element, name) == element[name]

\* get_location(location): the VOLUME / DIR / FILE triple of a file URI
get_location(location) ==
    CASE location = "file://localhost/C:/Music/a.mp3" ->
            [VOLUME |-> "C:", DIR |-> "/:Music/:", FILE |-> "a.mp3"]
      [] location = "file://localhost/C:/Music/b.mp3" ->
            [VOLUME |-> "C:", DIR |-> "/:Music/:", FILE |-> "b.mp3"]
      [] location = "file://localhost/D:/a.mp3" ->
            [VOLUME |-> "D:", DIR |-> "/:", FILE |-> "a.mp3"]
      [] OTHER -> [VOLUME |-> "", DIR |-> "", FILE |-> ""]

\* get_cue_type(cue_type): Rekordbox cue type code -> Traktor cue type code
get_cue_type(cue_type) ==
    CASE cue_type = "0" -> "0"
      [] cue_type = "4" -> "5"
      [] OTHER -> "0"

-----------------------------------------------------------------------------
(* Track mapper *)

\* safe_float(value, default)
safe_float(value, default) ==
    IF value # "" /\ ~float_raises(value) THEN float(value) ELSE default

\* safe_get_attr(attr_name, default), on element track
safe_get_attr(track, attr_name, default) ==
    IF get_attribute(track, attr_name) # "" THEN get_attribute(track, attr_name)
    ELSE default

\* set_track_info(track): the fields of self.track_info the emitter reads
set_track_info(track) ==
    [bpm      |-> safe_float(safe_get_attr(track, "AverageBpm", "120.0"), 120),
     playtime |-> safe_get_attr(track, "TotalTime", "0"),
     bitrate  |-> safe_float(safe_get_attr(track, "BitRate", "320"), 320) * 1000,
     location |-> safe_get_attr(track, "Location", "")]

\* sec_2_ms(time_sec) on a string argument; callers check sec_2_ms_raises first
sec_2_ms(time_sec) == IF time_sec # "" THEN float(time_sec) * 1000 ELSE 0

sec_2_ms_raises(time_sec) == time_sec # "" /\ float_raises(time_sec)

\* sec_2_ms(time_sec) on a float argument
sec_2_ms_float(time_sec) == IF time_sec # 0 THEN time_sec * 1000 ELSE 0


-----------------------------------------------------------------------------
(* Track emitter: beat grid *)

\* add_beatmarker(start_ms, bpm, is_autogrid): the CUE_V2 element with its GRID child
add_beatmarker(start_ms, bpm, is_autogrid) ==
    [NAME |-> IF is_autogrid THEN "AutoGrid" ELSE "Beat Marker",
     TYPE |-> "4", START |-> start_ms, LEN |-> 0, HOTCUE |-> "-1", GRID |-> <<bpm>>]

\* add_autogrid(start_ms): the grid-anchor CUE_V2 element
add_autogrid(start_ms) ==
    [NAME |-> "AutoGrid", TYPE |-> "0", START |-> start_ms, LEN |-> 0,
     HOTCUE |-> "0", GRID |-> <<>>]

\* float(get_attribute(tempo, "Inizio") or "0") or float(get_attribute(tempo, "Bpm") or
\* str(bpm)) raises; str() of a float always parses
tempo_raises(tempo) ==
    \/ get_attribute(tempo, "Inizio") # "" /\ float_raises(get_attribute(tempo, "Inizio"))
    \/ get_attribute(tempo, "Bpm") # "" /\ float_raises(get_attribute(tempo, "Bpm"))

tempo_start_ms(tempo) ==
    sec_2_ms_float(IF get_attribute(tempo, "Inizio") # ""
                   THEN float(get_attribute(tempo, "Inizio")) ELSE 0)

tempo_bpm(tempo, info) ==
    IF get_attribute(tempo, "Bpm") # "" THEN float(get_attribute(tempo, "Bpm"))
    ELSE info.bpm

\* is_autogrid = (i == 0), i the enumerate() index
is_autogrid_always(i) == TRUE
is_autogrid(i) == i = 0

RECURSIVE tempo_loop(_, _, _)
\* the for loop of the multi-marker branch, from enumerate() index i on:
\* [cues: the CUE_V2 elements added, raised: whether a float() raised]
tempo_loop(tempo_elements, i, info) ==
    IF i >= Len(tempo_elements) THEN [cues |-> <<>>, raised |-> FALSE]
    ELSE LET tempo == tempo_elements[i + 1] IN
         IF tempo_raises(tempo) THEN [cues |-> <<>>, raised |-> TRUE]
         ELSE LET start_ms == tempo_start_ms(tempo)
                  rest == tempo_loop(tempo_elements, i + 1, info)
              IN [cues |-> <<add_beatmarker(start_ms, tempo_bpm(tempo, info), is_autogrid(i))>>
                           \o (IF is_autogrid(i) THEN <<add_autogrid(start_ms)>> ELSE <<>>)
                           \o rest.cues,
                  raised |-> rest.raised]

\* process_tempo(track)
process_tempo(track, info) ==
    LET tempo_elements == track.TEMPO IN
    IF tempo_elements = <<>>
    THEN [cues |-> <<add_beatmarker(0, info.bpm, TRUE), add_autogrid(0)>>, raised |-> FALSE]
    ELSE IF Len(tempo_elements) = 1
    THEN LET tempo == tempo_elements[1] IN
         IF tempo_raises(tempo) THEN [cues |-> <<>>, raised |-> TRUE]
         ELSE [cues |-> <<add_beatmarker(tempo_start_ms(tempo), tempo_bpm(tempo, info), TRUE),
                          add_autogrid(tempo_start_ms(tempo))>>,
               raised |-> FALSE]
    ELSE tempo_loop(tempo_elements, 0, info)

-----------------------------------------------------------------------------
(* Track emitter: cues *)

\* sec_2_ms(start_sec) or sec_2_ms(end_sec) raises inside add_cue
add_cue_raises(position_mark) ==
    \/ sec_2_ms_raises(get_attribute(position_mark, "Start"))
    \/ sec_2_ms_raises(get_attribute(position_mark, "End"))

\* add_cue(position_mark) with self.cue_index = idx: the CUE_V2 element
add_cue(position_mark, idx) ==
    LET start_sec == get_attribute(position_mark, "Start")
        end_sec == get_attribute(position_mark, "End")
        num == get_attribute(position_mark, "Num")
        name == get_attribute(position_mark, "Name")
        start_ms == sec_2_ms(start_sec)
    IN [NAME |-> IF name # "" THEN name ELSE "n.n.",
        TYPE |-> get_cue_type(get_attribute(position_mark, "Type")),
        START |-> start_ms,
        LEN |-> IF end_sec # "" THEN sec_2_ms(end_sec) - start_ms ELSE 0,
        HOTCUE |-> IF num # "" /\ num # "-1" THEN num ELSE ToString(idx),
        GRID |-> <<>>]

RECURSIVE process_cues(_, _)
\* process_cues(track) over the remaining position_marks with self.cue_index = idx:
\* [cues: the CUE_V2 elements added, cue_index: self.cue_index afterwards, raised]
process_cues(position_marks, idx) ==
    IF position_marks = <<>> THEN [cues |-> <<>>, cue_index |-> idx, raised |-> FALSE]
    ELSE LET position_mark == Head(position_marks) IN
         IF get_attribute(position_mark, "Name") = "AutoGrid"
         THEN process_cues(Tail(position_marks), idx)
         ELSE IF add_cue_raises(position_mark)
         THEN [cues |-> <<>>, cue_index |-> idx, raised |-> TRUE]
         ELSE LET rest == process_cues(Tail(position_marks), idx + 1)
              IN [cues |-> <<add_cue(position_mark, idx)>> \o rest.cues,
                  cue_index |-> rest.cue_index, raised |-> rest.raised]

-----------------------------------------------------------------------------
(* Track emitter: one ENTRY *)

\* reset_track(): the value self.cue_index is reset to
reset_track_keeps_cue_index == cue_index
reset_track_cue_index == 1

\* add_info(): the INFO attributes computed from numeric fields
add_info(info) ==
    [BITRATE |-> info.bitrate,
     PLAYTIME |-> info.playtime,
     PLAYTIME_FLOAT |-> IF float_raises(info.playtime) THEN 0 ELSE float(info.playtime)]

\* process_track(track, collection): the ENTRY built (complete, or as far as it got
\* when a float() raised), self.cue_index afterwards, and whether it raised
process_track(track) ==
    LET info == set_track_info(track)
        grid == process_tempo(track, info)
        cues == IF grid.raised
                THEN [cues |-> <<>>, cue_index |-> reset_track_cue_index, raised |-> TRUE]
                ELSE process_cues(track.POSITION_MARK, reset_track_cue_index)
    IN [entry |-> [LOCATION |-> get_location(info.location),
                   INFO |-> add_info(info),
                   TEMPO |-> info.bpm,
                   CUE_V2 |-> grid.cues \o cues.cues],
        cue_index |-> cues.cue_index,
        raised |-> cues.raised]

\* file_path = f"{loc['VOLUME']}{loc['DIR']}{loc['FILE']}"
file_path_of_file_only(loc) == loc.FILE
file_path_of(loc) == loc.VOLUME \o loc.DIR \o loc.FILE

-----------------------------------------------------------------------------
(* Playlist translator *)

RECURSIVE resolve_refs(_, _)
\* the loop over track_elements of a playlist: the KEY of every PRIMARYKEY added
resolve_refs(track_elements, map) ==
    IF track_elements = <<>> THEN <<>>
    ELSE LET track_id == get_attribute(Head(track_elements), "Key") IN
         (IF track_id # "" /\ track_id \in DOMAIN map THEN <<map[track_id]>> ELSE <<>>)
         \o resolve_refs(Tail(track_elements), map)

RECURSIVE process_playlist_node(_, _)
\* process_playlist_node(rekordbox_node, parent_subnodes): the NODE elements it adds
\* to parent_subnodes (none or one)
process_playlist_node(rekordbox_node, map) ==
    LET node_type == get_attribute(rekordbox_node, "Type")
        node_name == get_attribute(rekordbox_node, "Name")
    IN IF node_name = "" THEN <<>>
       ELSE IF node_type = "0"
       THEN LET children == rekordbox_node.NODE IN
            <<[TYPE |-> "FOLDER", NAME |-> node_name,
               COUNT |-> Len(children),
               SUBNODES |-> Flatten([i \in 1..Len(children) |->
                                       process_playlist_node(children[i], map)])]>>
       ELSE IF node_type = "1"
       THEN LET track_elements == rekordbox_node.TRACK IN
            IF track_elements = <<>> THEN <<>>
            ELSE <<[TYPE |-> "PLAYLIST", NAME |-> node_name,
                    ENTRIES |-> Len(track_elements),
                    KEYS |-> resolve_refs(track_elements, map)]>>
       ELSE <<>>

\* add_playlists_section() followed by the SUBNODES element without COUNT (-1)
add_playlists_section ==
    [TYPE |-> "FOLDER", NAME |-> "$ROOT", COUNT |-> -1, SUBNODES |-> <<>>]

\* add_default_playlist(): the $ROOT node of the PLAYLISTS element it creates
add_default_playlist(trks) ==
    [TYPE |-> "FOLDER", NAME |-> "$ROOT", COUNT |-> 1,
     SUBNODES |-> <<[TYPE |-> "PLAYLIST", NAME |-> "collection",
                     ENTRIES |-> Len(trks), KEYS |-> trks]>>]

\* process_playlists(rekordbox_root): the $ROOT nodes of the PLAYLISTS elements added
process_playlists(rekordbox_root, trks, map) ==
    IF rekordbox_root.PLAYLISTS = <<>>
    THEN <<add_default_playlist(trks)>>
    ELSE LET playlists_section == rekordbox_root.PLAYLISTS[1] IN
         IF playlists_section.NODE # <<>>
         THEN LET children == playlists_section.NODE[1].NODE IN
              <<[add_playlists_section EXCEPT
                   !.COUNT = Len(children),
                   !.SUBNODES = Flatten([i \in 1..Len(children) |->
                                           process_playlist_node(children[i], map)])]>>
         ELSE <<add_playlists_section, add_default_playlist(trks)>>

-----------------------------------------------------------------------------
(* findall(".//TRACK") *)

RECURSIVE node_tracks(_)
\* the TRACK descendants of a playlist NODE, in document order
node_tracks(node) ==
    node.TRACK \o Flatten([i \in 1..Len(node.NODE) |-> node_tracks(node.NODE[i])])

\* root.findall(".//TRACK"): every TRACK element of the document, in document order
findall_TRACK(rekordbox_root) ==
    rekordbox_root.COLLECTION
    \o Flatten([s \in 1..Len(rekordbox_root.PLAYLISTS) |->
                  Flatten([i \in 1..Len(rekordbox_root.PLAYLISTS[s].NODE) |->
                             node_tracks(rekordbox_root.PLAYLISTS[s].NODE[i])])])

-----------------------------------------------------------------------------
(* Source documents *)

LocA == "file://localhost/C:/Music/a.mp3"
LocB == "file://localhost/C:/Music/b.mp3"
LocD == "file://localhost/D:/a.mp3"

\* a TRACK element of the source COLLECTION
Trk(id, loc, bpm, tempos, marks) ==
    [TrackID |-> id, Key |-> "", Location |-> loc, AverageBpm |-> bpm, BitRate |-> "",
     TotalTime |-> "", TEMPO |-> tempos, POSITION_MARK |-> marks]

\* a TRACK reference element of a source playlist
Ref(key) ==
    [TrackID |-> "", Key |-> key, Location |-> "", AverageBpm |-> "", BitRate |-> "",
     TotalTime |-> "", TEMPO |-> <<>>, POSITION_MARK |-> <<>>]

\* source playlist NODE elements
PL(name, keys) ==
    [Type |-> "1", Name |-> name, NODE |-> <<>>,
     TRACK |-> [i \in 1..Len(keys) |-> Ref(keys[i])]]
FD(name, children) == [Type |-> "0", Name |-> name, NODE |-> children, TRACK |-> <<>>]

Doc(coll, pls) == [COLLECTION |-> coll, PLAYLISTS |-> pls]
NoPlaylists == <<>>                         \* no PLAYLISTS element
NoRootNode == <<[NODE |-> <<>>]>>           \* a PLAYLISTS element without NODE
Tree(children) == <<[NODE |-> <<FD("ROOT", children)>>]>>

\* collections used with playlist trees
PlaylistCollections ==
    { <<>>,
      <<Trk("1", LocA, "", <<>>, <<>>)>>,
      <<Trk("1", LocA, "", <<>>, <<>>), Trk("2", LocB, "", <<>>, <<>>)>>,
      <<Trk("1", LocA, "", <<>>, <<>>), Trk("1", LocB, "", <<>>, <<>>)>>,
      <<Trk("", LocA, "", <<>>, <<>>)>>,
      <<Trk("2", LocD, "", <<>>, <<>>), Trk("1", LocA, "", <<>>, <<>>)>> }

Keys == {"1", "2", "9"}
SmallLeaves == {PL("P", <<>>), PL("P", <<"1">>), PL("P", <<"9">>), PL("", <<"1">>)}
TopNodes ==
    SmallLeaves \cup
    { PL("Q", <<"9", "1">>),
      [Type |-> "2", Name |-> "X", NODE |-> <<>>, TRACK |-> <<Ref("1")>>],
      FD("F", <<>>),
      FD("F", <<PL("P", <<>>)>>),
      FD("F", <<PL("P", <<"2">>), PL("Q", <<"9">>)>>),
      FD("", <<PL("P", <<"1">>)>>),
      FD("F", <<FD("G", <<PL("P", <<"1", "9">>)>>)>>) }

PlaylistTrees ==
    {Tree(c) : c \in SeqsUpTo(TopNodes, MaxChildren)}
    \cup {Tree(<<PL("P", k)>>) : k \in SeqsUpTo(Keys, MaxRefs)}
    \cup {Tree(<<FD("F", c)>>) : c \in SeqsUpTo(SmallLeaves, MaxChildren)}

PlaylistDocs ==
    {Doc(c, p) : c \in PlaylistCollections,
                 p \in {NoPlaylists, NoRootNode} \cup PlaylistTrees}

\* single tracks with every shape of tempo marker
TempoMarkers == [Inizio : {"", "2", "abc"}, Bpm : {"", "130", "abc"}]
TempoDocs ==
    {Doc(<<Trk("1", LocA, bpm, t, <<>>)>>, NoPlaylists) :
        bpm \in {"", "abc", "128"}, t \in SeqsUpTo(TempoMarkers, MaxTempo)}

\* tracks with numeric INFO fields of every shape
NumericDocs ==
    {Doc(<<[Trk("1", LocA, "", <<>>, <<>>) EXCEPT !.BitRate = br, !.TotalTime = tt]>>,
         NoPlaylists) : br \in {"", "abc", "256"}, tt \in {"", "abc", "5"}}

\* tracks with position marks: hot-cue slots
Mark(name, start, end, num, type) ==
    [Name |-> name, Start |-> start, End |-> end, Num |-> num, Type |-> type]
SlotMarks == {Mark(n, "1", "", num, "0") : n \in {"", "Intro", "AutoGrid"},
                                          num \in {"", "-1", "5"}}
SlotTracks == {Trk("1", LocA, "", <<>>, m) : m \in SeqsUpTo(SlotMarks, MaxMarks)}
SecondTracks == {Trk("2", LocB, "", <<>>, m) : m \in SeqsUpTo(SlotMarks, 1)}
SlotDocs ==
    {Doc(<<t>>, NoPlaylists) : t \in SlotTracks}
    \cup {Doc(<<t, u>>, NoPlaylists) : t \in SlotTracks, u \in SecondTracks}

\* tracks with position marks: start, end and type of every shape
LoopMarks == {Mark("Intro", s, e, "", ty) : s \in {"", "1", "abc"}, e \in {"", "3", "abc"},
                                           ty \in {"0", "4"}}
LoopDocs ==
    {Doc(<<Trk("1", LocA, "", <<>>, m)>>, NoPlaylists) : m \in SeqsUpTo(LoopMarks, MaxMarks)}

\* tracks with tempo markers and position marks together
MixedDocs ==
    {Doc(<<Trk("1", LocA, "128", t, m)>>, NoPlaylists) :
        t \in SeqsUpTo({[Inizio |-> "2", Bpm |-> "130"], [Inizio |-> "3", Bpm |-> ""]},
                       MaxTempo),
        m \in SeqsUpTo({Mark("Intro", "1", "3", "", "4"), Mark("AutoGrid", "0", "", "", "0"),
                        Mark("Out", "5", "", "2", "0")}, MaxMarks)}

Documents ==
    PlaylistDocs \cup TempoDocs \cup NumericDocs \cup SlotDocs \cup LoopDocs \cup MixedDocs

-----------------------------------------------------------------------------
(* convert_xml_to_nml *)

\* Rekordbox2Traktor() followed by ET.parse(xml_file)
Init ==
    /\ src \in Documents
    /\ pc = "start"
    /\ entries = <<>>
    /\ root = <<>>
    /\ collection_ENTRIES = -1
    /\ collection = <<>>
    /\ sets_ENTRIES = -1
    /\ playlists = <<>>
    /\ tracks = <<>>
    /\ track_id_map = [k \in {} |-> ""]
    /\ track_index = 0
    /\ cue_index = 0

\* entries = root.findall(".//TRACK"); add_head(); add_collection(entries)
Start ==
    /\ pc = "start"
    /\ entries' = findall_TRACK(src)
    /\ root' = <<"HEAD", "COLLECTION">>
    /\ collection_ENTRIES' = Len(findall_TRACK(src))
    /\ tracks' = <<>>
    /\ track_id_map' = [k \in {} |-> ""]
    /\ pc' = "tracks"
    /\ UNCHANGED <<src, collection, sets_ENTRIES, playlists, track_index, cue_index>>

\* one iteration of "for track in entries" in which nothing raises
ProcessTrack ==
    /\ pc = "tracks"
    /\ track_index < Len(entries)
    /\ LET track == entries[track_index + 1]
           r == process_track(track)
           track_id == get_attribute(track, "TrackID")
           file_path == file_path_of(get_location(get_attribute(track, "Location")))
       IN /\ ~r.raised
          /\ collection' = Append(collection, r.entry)
          /\ cue_index' = r.cue_index
          /\ tracks' = Append(tracks, file_path)
          /\ track_id_map' =
                IF track_id # ""
                THEN [k \in DOMAIN track_id_map \cup {track_id} |->
                        IF k = track_id THEN file_path ELSE track_id_map[k]]
                ELSE track_id_map
          /\ track_index' = track_index + 1
    /\ UNCHANGED <<src, pc, entries, root, collection_ENTRIES, sets_ENTRIES, playlists>>

\* one iteration of "for track in entries" in which float() raises ValueError inside
\* process_tempo or add_cue: the exception leaves convert_xml_to_nml, nothing is written
ProcessTrackRaises ==
    /\ pc = "tracks"
    /\ track_index < Len(entries)
    /\ LET r == process_track(entries[track_index + 1])
       IN /\ r.raised
          /\ collection' = Append(collection, r.entry)
          /\ cue_index' = r.cue_index
    /\ pc' = "raised"
    /\ UNCHANGED <<src, entries, root, collection_ENTRIES, sets_ENTRIES, playlists,
                   tracks, track_id_map, track_index>>

\* add_sets(), after the loop over entries
AddSets ==
    /\ pc = "tracks"
    /\ track_index = Len(entries)
    /\ root' = Append(root, "SETS")
    /\ sets_ENTRIES' = 0
    /\ pc' = "playlists"
    /\ UNCHANGED <<src, entries, collection_ENTRIES, collection, playlists, tracks,
                   track_id_map, track_index, cue_index>>

\* process_playlists(root)
ProcessPlaylists ==
    /\ pc = "playlists"
    /\ playlists' = process_playlists(src, tracks, track_id_map)
    /\ root' = root \o [i \in 1..Len(process_playlists(src, tracks, track_id_map)) |->
                          "PLAYLISTS"]
    /\ pc' = "indexing"
    /\ UNCHANGED <<src, entries, collection_ENTRIES, collection, sets_ENTRIES, tracks,
                   track_id_map, track_index, cue_index>>

\* add_indexing(); tree.write(nml_file)
AddIndexing ==
    /\ pc = "indexing"
    /\ root' = Append(root, "INDEXING")
    /\ pc' = "done"
    /\ UNCHANGED <<src, entries, collection_ENTRIES, collection, sets_ENTRIES, playlists,
                   tracks, track_id_map, track_index, cue_index>>

Next ==
    \/ Start
    \/ ProcessTrack
    \/ ProcessTrackRaises
    \/ AddSets
    \/ ProcessPlaylists
    \/ AddIndexing

Spec == Init /\ [][Next]_vars

-----------------------------------------------------------------------------
(* Helpers of the properties *)

\* the location string an emitted ENTRY carries in its LOCATION child
EmittedLocation(entry) ==
    entry.LOCATION.VOLUME \o entry.LOCATION.DIR \o entry.LOCATION.FILE

\* the source document has a PLAYLISTS element with a root NODE (no fallback)
HasRootNode == src.PLAYLISTS # <<>> /\ src.PLAYLISTS[1].NODE # <<>>

Max(a, b) == IF a >= b THEN a ELSE b

RECURSIVE OutPlaylists(_)
\* the PLAYLIST nodes of a destination subtree, in document order
OutPlaylists(node) ==
    IF node.TYPE = "PLAYLIST" THEN <<node>>
    ELSE Flatten([i \in 1..Len(node.SUBNODES) |-> OutPlaylists(node.SUBNODES[i])])

RECURSIVE OutFolders(_)
\* the FOLDER nodes of a destination subtree, in document order
OutFolders(node) ==
    IF node.TYPE = "PLAYLIST" THEN <<>>
    ELSE <<node>> \o Flatten([i \in 1..Len(node.SUBNODES) |-> OutFolders(node.SUBNODES[i])])

AllOutPlaylists == Flatten([k \in 1..Len(playlists) |-> OutPlaylists(playlists[k])])
AllOutFolders == Flatten([k \in 1..Len(playlists) |-> OutFolders(playlists[k])])

RECURSIVE SrcPlaylists(_)
\* the source playlists that have a destination playlist, in document order: named,
\* with at least one TRACK element, below named folders only
SrcPlaylists(node) ==
    IF node.Name = "" THEN <<>>
    ELSE IF node.Type = "0"
    THEN Flatten([i \in 1..Len(node.NODE) |-> SrcPlaylists(node.NODE[i])])
    ELSE IF node.Type = "1" /\ node.TRACK # <<>> THEN <<node>>
    ELSE <<>>

\* the collection ENTRYs emitted for source tracks with identifier id
EntriesOfId(id) == {i \in 1..track_index : id # "" /\ entries[i].TrackID = id}

\* the location string of the last ENTRY emitted for identifier id
LocationOfId(id) ==
    EmittedLocation(collection[CHOOSE i \in EntriesOfId(id) :
                                  \A j \in EntriesOfId(id) : j <= i])

RECURSIVE ExpectedKeys(_)
\* the emitted locations of the references that have a collection track, in order
ExpectedKeys(refs) ==
    IF refs = <<>> THEN <<>>
    ELSE (IF EntriesOfId(Head(refs).Key) # {} THEN <<LocationOfId(Head(refs).Key)>>
          ELSE <<>>) \o ExpectedKeys(Tail(refs))

-----------------------------------------------------------------------------
(* Properties *)

\* C1: when playlist translation starts, every ENTRY of the destination COLLECTION
\* has an entry in track_id_map (under its source TrackID) whose value is the path
\* constructed for that track.
C1_EveryEntryInLookupTable ==
    pc = "playlists" =>
        \A i \in 1..Len(collection) :
            /\ entries[i].TrackID \in DOMAIN track_id_map
            /\ track_id_map[entries[i].TrackID] = EmittedLocation(collection[i])

\* C2: the finished COLLECTION has exactly one ENTRY per track node of the source
\* collection; track references inside playlists produce no collection entries.
C2_OneEntryPerCollectionTrack ==
    pc = "done" => Len(collection) = Len(src.COLLECTION)

\* C3: on every destination folder produced by the playlist translation ($ROOT
\* included) the COUNT of SUBNODES equals the number of child NODEs emitted under it.
C3_CountMatchesEmittedChildren ==
    (pc = "done" /\ HasRootNode) =>
        \A k \in 1..Len(AllOutFolders) :
            AllOutFolders[k].COUNT = Len(AllOutFolders[k].SUBNODES)

\* C4: a translated destination playlist holds only resolvable entries, and a source
\* playlist none of whose references resolves has no destination playlist node: every
\* destination playlist node has at least one entry.
C4_NoPlaylistWithoutResolvedEntry ==
    (pc = "done" /\ HasRootNode) =>
        \A k \in 1..Len(AllOutPlaylists) :
            /\ AllOutPlaylists[k].KEYS # <<>>
            /\ \A e \in 1..Len(AllOutPlaylists[k].KEYS) :
                  \E id \in DOMAIN track_id_map :
                      track_id_map[id] = AllOutPlaylists[k].KEYS[e]

\* C5: the written root has exactly the children HEAD, COLLECTION, SETS (0 entries),
\* PLAYLISTS, INDEXING in that order; in both fallbacks the single PLAYLISTS section
\* holds exactly one default playlist.
C5_FixedTopLevelShape ==
    pc = "done" =>
        /\ root = <<"HEAD", "COLLECTION", "SETS", "PLAYLISTS", "INDEXING">>
        /\ sets_ENTRIES = 0
        /\ Len(playlists) = 1
        /\ ~HasRootNode =>
              /\ Len(playlists[1].SUBNODES) = 1
              /\ playlists[1].SUBNODES[1].TYPE = "PLAYLIST"
              /\ playlists[1].SUBNODES[1].NAME = "collection"
              /\ playlists[1].SUBNODES[1].KEYS = tracks

\* C6: no malformed, empty or missing numeric field makes the conversion abort.
C6_NumericFieldsNeverAbort == pc # "raised"

\* C7: for every processed track with N tempo markers the CUE_V2 list starts with what
\* process_tempo emitted: max(N,1) beat markers (TYPE 4, with GRID) in source order,
\* only the first named AutoGrid, and exactly one grid anchor (TYPE 0, no GRID) right
\* after the first beat marker and at its start position; with N = 0 both are at 0
\* with the track's average BPM.  Nothing else but the track's cues follows.
C7_BeatGrid ==
    \A i \in 1..track_index :
        LET tempos == entries[i].TEMPO
            n == Max(Len(tempos), 1)
            cues == collection[i].CUE_V2
            ncues == Cardinality({k \in 1..Len(entries[i].POSITION_MARK) :
                                    entries[i].POSITION_MARK[k].Name # "AutoGrid"})
            marker(j) == IF j = 1 THEN cues[1] ELSE cues[j + 1]
            avg == IF entries[i].AverageBpm \in DOMAIN NumVal
                   THEN NumVal[entries[i].AverageBpm] ELSE 120
        IN /\ Len(cues) = n + 1 + ncues
           /\ cues[1].TYPE = "4" /\ cues[1].NAME = "AutoGrid" /\ Len(cues[1].GRID) = 1
           /\ cues[2].TYPE = "0" /\ cues[2].GRID = <<>> /\ cues[2].START = cues[1].START
           /\ \A j \in 2..n : /\ marker(j).TYPE = "4"
                              /\ marker(j).NAME = "Beat Marker"
                              /\ Len(marker(j).GRID) = 1
           /\ tempos = <<>> => cues[1].START = 0 /\ cues[1].GRID = <<avg>>
           /\ \A j \in 1..Len(tempos) :
                 /\ marker(j).START = (IF tempos[j].Inizio = "" THEN 0
                                       ELSE NumVal[tempos[j].Inizio] * 1000)
                 /\ marker(j).GRID = <<IF tempos[j].Bpm = "" THEN avg
                                       ELSE NumVal[tempos[j].Bpm]>>

\* a finished conversion of a track with two or more distinct tempo markers
C7_Witness ==
    /\ pc = "done"
    /\ \E i \in 1..track_index :
          /\ Len(entries[i].TEMPO) >= 2
          /\ entries[i].TEMPO[1] # entries[i].TEMPO[2]
          /\ Len(collection[i].CUE_V2) = Len(entries[i].TEMPO) + 1
          /\ collection[i].CUE_V2[3].NAME = "Beat Marker"

\* C8: for every processed track, the k-th position mark not named AutoGrid yields the
\* k-th cue, whose HOTCUE is the mark's Num when that is present and not "-1", and
\* otherwise the per-track counter, which is 1 at the track's first cue and advances
\* by one per emitted cue, whatever tracks were processed before.
C8_HotCueSlots ==
    \A i \in 1..track_index :
        LET marks == entries[i].POSITION_MARK
            kept == SelectIdx(marks, {m \in {marks[k] : k \in 1..Len(marks)} :
                                        m.Name # "AutoGrid"}, 1)
            first == Max(Len(entries[i].TEMPO), 1) + 1
            cues == collection[i].CUE_V2
        IN /\ Len(cues) = first + Len(kept)
           /\ \A k \in 1..Len(kept) :
                 cues[first + k].HOTCUE =
                    IF marks[kept[k]].Num # "" /\ marks[kept[k]].Num # "-1"
                    THEN marks[kept[k]].Num
                    ELSE ToString(k)

\* a second track whose first cue has no usable slot and got slot 1, after a first
\* track that emitted two cues
C8_Witness ==
    /\ track_index = 2
    /\ Len(collection[1].CUE_V2) = 4
    /\ Len(collection[2].CUE_V2) = 3
    /\ entries[2].POSITION_MARK[1].Num \in {"", "-1"}
    /\ collection[2].CUE_V2[3].HOTCUE = "1"

\* C9: the j-th destination playlist belongs to the j-th translated source playlist,
\* and its PRIMARYKEY KEYs are, in source reference order, the location strings
\* (VOLUME+DIR+FILE of the emitted LOCATION) of the collection entries emitted for the
\* referenced identifiers; references without a collection track give no entry.
C9_PlaylistKeysAreEmittedLocations ==
    (pc = "done" /\ HasRootNode) =>
        LET srcs == SrcPlaylists(src.PLAYLISTS[1].NODE[1])
        IN /\ Len(AllOutPlaylists) = Len(srcs)
           /\ \A j \in 1..Len(srcs) :
                 /\ AllOutPlaylists[j].NAME = srcs[j].Name
                 /\ AllOutPlaylists[j].KEYS = ExpectedKeys(srcs[j].TRACK)

\* a finished conversion with a translated playlist holding two resolved references
\* to different tracks
C9_Witness ==
    /\ pc = "done"
    /\ HasRootNode
    /\ \E j \in 1..Len(AllOutPlaylists) :
          /\ Len(AllOutPlaylists[j].KEYS) = 2
          /\ AllOutPlaylists[j].KEYS[1] # AllOutPlaylists[j].KEYS[2]
          /\ AllOutPlaylists[j].KEYS[1] # ""

\* C10: in the finished document ENTRIES of COLLECTION equals the number of its ENTRY
\* children, and ENTRIES of every PLAYLIST equals the number of ENTRY children under it.
C10_DeclaredEntryCountsMatch ==
    pc = "done" =>
        /\ collection_ENTRIES = Len(collection)
        /\ \A k \in 1..Len(AllOutPlaylists) :
              AllOutPlaylists[k].ENTRIES = Len(AllOutPlaylists[k].KEYS)

=============================================================================
